---- MODULE Spec2Model ----
(***************************************************************************)
(* Model of the static container library of static_types.h (tlist,         *)
(* thlist, tmap, tstrlist) and of the harness of test.cc.                  *)
(*                                                                         *)
(* Template recursion is modelled by RECURSIVE operators that take the     *)
(* same counter N and the same remaining type list (T, REST...) as the     *)
(* member templates.  Doubles are fixed-point integers in units of         *)
(* 1/Scale.  size_t indices are naturals.                                  *)
(***************************************************************************)
EXTENDS Integers, Sequences, FiniteSets, TLC

\* ---------------------------------------------------------------- bounds
MaxLen == 3      \* longest tlist / tstrlist / thlist explored
MaxPairs == 3    \* most KVPAIRS of a tmap explored

\* fixed-point unit: the literals of test.cc have four decimals
Scale == 10000

\* ------------------------------------------------------- literal domains
TVals == {5, 7, -3}                 \* ARGS of a tlist<int64_t, ...>
Strs == {"baz", "bat"}              \* tstr literals of a tstrlist
Keys == {"chicken", "beef"}         \* tstr literals used as tmap keys
\* tstrlists used as tmap values
ValLists == {<<"foo", "bar">>, <<"baz", "bat">>, <<"bat", "baz", "bat">>}
QueryKeys == Keys \cup {"pork"}     \* keys a caller may ask for
ElemTypes == {"calc", "calc2"}      \* ARGS of a thlist

SeqsUpTo(S, n) == UNION {[1..m -> S] : m \in 1..n}

\* ------------------------------------------------------------- outcomes
\* how a call ends: a returned value, a thrown std::out_of_range with its
\* what() text, a crash (an out-of-bounds read may fault), or a call that
\* the compiler rejects when it instantiates the member template
Return(v) == [kind |-> "return", val |-> v, what |-> ""]
Throw(w) == [kind |-> "throw", val |-> 0, what |-> w]
Crash == [kind |-> "crash", val |-> 0, what |-> ""]
IllFormed == [kind |-> "ill-formed", val |-> 0, what |-> ""]

\* ---------------------------------------------------------------- tlist
tlist_size(values) == Len(values)

\* what an out-of-bounds read of values[] may yield
Garbage == TVals \cup {0}

\* constexpr T operator[](size_t i_) const { return values[i_]; }
\* no range check: past the end the read is undefined behaviour
tlist_index(values, i) ==
  IF i < Len(values)
    THEN {Return(values[i + 1])}
    ELSE {Return(g) : g \in Garbage} \cup {Crash}

\* -------------------------------------------------------------- tstrlist
tstrlist_size(args) == Len(args)

\* get_helper<N, T, REST...>(i): args is the list (T, REST...)
RECURSIVE tstrlist_get_helper(_, _, _)
tstrlist_get_helper(N, args, i) ==
  IF i = N
    THEN Return(Head(args))
    ELSE IF N # 0
      THEN tstrlist_get_helper(N - 1, Tail(args), i)
      ELSE Throw("index error in get_helper")

\* operator[](i) = get_helper<sizeof...(ARGS) - 1, ARGS...>(i)
tstrlist_index(args, i) == tstrlist_get_helper(Len(args) - 1, args, i)

\* ----------------------------------------------------------------- tmap
\* A tmap<KEY, VALUE, KVPAIRS...> is the sequence of its KVPAIRS, each a
\* record [first |-> key literal, second |-> the tstrlist it is paired with]
\* (the map-of-lists use the header documents), and its VALUE parameter.
\* VALUE enters the model through what the expressions VALUE().first() and
\* VALUE().second denote: NoMember when VALUE has no such members (a
\* string_view, a scalar), else a record like a KVPAIR.
NoMember == [first |-> "<no first()>", second |-> <<>>]

\* static constexpr size_t size() { return sizeof...(KVPAIRS); }
tmap_size(kvpairs) == Len(kvpairs)

\* mutation of size_helper: the scan goes on after a match, so the last
\* binding with the key decides
RECURSIVE tmap_size_helper_last(_, _, _)
tmap_size_helper_last(N, kvs, key) ==
  LET rest == IF N # 0
                THEN tmap_size_helper_last(N - 1, Tail(kvs), key)
                ELSE Throw("couldn't find key in tmap in size_helper")
  IN IF rest.kind = "return"
       THEN rest
       ELSE IF Head(kvs).first = key
         THEN Return(tstrlist_size(Head(kvs).second))
         ELSE rest

\* size_helper<N, KV, REST...>(key_): kvs is the list (KV, REST...)
RECURSIVE tmap_size_helper(_, _, _)
tmap_size_helper(N, kvs, key) ==
  IF Head(kvs).first = key
    THEN Return(tstrlist_size(Head(kvs).second))
    ELSE IF N # 0
      THEN tmap_size_helper(N - 1, Tail(kvs), key)
      ELSE Throw("couldn't find key in tmap in size_helper")

\* size(key_) = size_helper<sizeof...(KVPAIRS) - 1, KVPAIRS...>(key_)
tmap_size_key(kvpairs, key) == tmap_size_helper(Len(kvpairs) - 1, kvpairs, key)

\* index_helper<N, KV, REST...>(key_): kvs is the list (KV, REST...)
RECURSIVE tmap_index_helper(_, _, _)
tmap_index_helper(N, kvs, key) ==
  IF Head(kvs) = NoMember
    THEN IllFormed
    ELSE IF Head(kvs).first = key
      THEN Return(Head(kvs).second)
      ELSE IF N # 0
        THEN tmap_index_helper(N - 1, Tail(kvs), key)
        ELSE Throw("couldn't find key in tmap in index_helper")

\* operator[](key_) = index_helper<sizeof...(KVPAIRS) - 1, VALUE, KVPAIRS...>(key_)
\* the type list handed to the helper starts with VALUE
tmap_index(value, kvpairs, key) ==
  tmap_index_helper(Len(kvpairs) - 1, <<value>> \o kvpairs, key)

\* mutation of get_helper: a missing key yields an empty string_view
\* instead of the throw
RECURSIVE tmap_get_helper_default(_, _, _, _)
tmap_get_helper_default(N, kvs, key, i) ==
  IF Head(kvs).first = key
    THEN tstrlist_index(Head(kvs).second, i)
    ELSE IF N # 0
      THEN tmap_get_helper_default(N - 1, Tail(kvs), key, i)
      ELSE Return("")

\* get_helper<N, KV, REST...>(key_, i_): kvs is the list (KV, REST...)
RECURSIVE tmap_get_helper(_, _, _, _)
tmap_get_helper(N, kvs, key, i) ==
  IF Head(kvs).first = key
    THEN tstrlist_index(Head(kvs).second, i)
    ELSE IF N # 0
      THEN tmap_get_helper(N - 1, Tail(kvs), key, i)
      ELSE Throw("couldn't find key in tmap in get_helper")

\* operator()(key_, i_) = get_helper<sizeof...(KVPAIRS) - 1, KVPAIRS...>(key_, i_)
tmap_get(kvpairs, key, i) == tmap_get_helper(Len(kvpairs) - 1, kvpairs, key, i)

\* the two failures of the specification, told apart by the what() text
IsKeyError(out) ==
  /\ out.kind = "throw"
  /\ out.what \in {"couldn't find key in tmap in size_helper",
                   "couldn't find key in tmap in index_helper",
                   "couldn't find key in tmap in get_helper"}
IsIndexError(out) ==
  /\ out.kind = "throw"
  /\ out.what \in {"index error in get_helper", "out of range in ivisit"}

\* ------------------------------------------------- calc, calc2 (test.cc)
\* the one outcome of an in-range tlist read
Val(outs) == (CHOOSE o \in outs : TRUE).val

\* template arguments of the instances main() declares
CalcCoefs == <<9999, 9980, 9333, 5000>>     \* calc<0.9999, 0.998, 0.9333, 0.5>
Calc2Coefs == <<5000, 2500>>                \* tlist<double, 0.5, 0.25>
Calc2Ids == <<1, 2>>                        \* tlist<uint64_t, 1, 2>
Calc3Groups == <<"chicken", "beef">>
Calc3GroupDefs ==
  << [first |-> "chicken", second |-> <<"foo", "bar">>],
     [first |-> "beef", second |-> <<"baz", "bat">>] >>
Calc3Coefs == <<5000, 2500>>                \* tlist<double, 0.5, 0.25>

Zeros(n) == [k \in 1..n |-> 0]

\* calc::update: for (i = 0; i < sizeof...(COEFS); ++i) sum += coefs[i];
RECURSIVE calc_loop(_, _, _)
calc_loop(coefs, i, sum) ==
  IF i < Len(coefs) THEN calc_loop(coefs, i + 1, sum + coefs[i + 1]) ELSE sum

\* mutation of calc::update: the loop starts at i = 1
calc_update_from1(coefs) == calc_loop(coefs, 1, 0)

calc_update(coefs) == calc_loop(coefs, 0, 0)

\* calc2::update: the two nested loops; st = [sum, ctr, values]
RECURSIVE calc2_loop(_, _, _, _, _)
calc2_loop(coefs, ids, i, j, st) ==
  IF i < tlist_size(coefs)
    THEN IF j < tlist_size(ids)
      THEN LET sum == st.sum + Val(tlist_index(coefs, i)) * Val(tlist_index(ids, j))
           IN calc2_loop(coefs, ids, i, j + 1,
                [sum |-> sum, ctr |-> st.ctr + 1,
                 values |-> [st.values EXCEPT ![st.ctr + 1] = sum]])
      ELSE calc2_loop(coefs, ids, i + 1, 0, st)
    ELSE st

\* returns the written _values and the returned _values[ctr-1]
calc2_update(coefs, ids, values) ==
  LET st == calc2_loop(coefs, ids, 0, 0, [sum |-> 0, ctr |-> 0, values |-> values])
  IN [values |-> st.values, ret |-> st.values[st.ctr]]

\* --------------------------------------------------------------- thlist
\* An element of std::tuple<ARGS...> items: its type and its _values member.
\* items = {ARGS()...} value-initialises each element: _values starts zeroed.
Elem(type) == [type |-> type, values |-> Zeros(4)]

thlist_size(items) == Len(items)

\* v.update() on an element of either type: the element after the call and
\* the value returned
update(e) ==
  IF e.type = "calc"
    THEN [elem |-> e, ret |-> calc_update(CalcCoefs)]
    ELSE LET r == calc2_update(Calc2Coefs, Calc2Ids, e.values)
         IN [elem |-> [e EXCEPT !.values = r.values], ret |-> r.ret]

\* the visitor of main(): [&lval](auto &v) { lval += v.update(); }
\* vs = [lval, calls]; calls logs each invocation (position and type of the
\* element handed over)
visitor(e, pos, vs) ==
  LET r == update(e)
  IN [elem |-> r.elem,
      vs |-> [lval |-> vs.lval + r.ret,
              calls |-> Append(vs.calls, [pos |-> pos, type |-> e.type])]]

\* mutation of visit<N>: the recursion placed before the visitor call
RECURSIVE thlist_visit_N_post(_, _, _)
thlist_visit_N_post(N, items, vs) ==
  LET s == IF N # 0
             THEN thlist_visit_N_post(N - 1, items, vs)
             ELSE [items |-> items, vs |-> vs, out |-> Return(0)]
      r == visitor(s.items[N + 1], N, s.vs)
  IN [items |-> [s.items EXCEPT ![N + 1] = r.elem], vs |-> r.vs, out |-> Return(0)]

\* visit<N>(visitor)
RECURSIVE thlist_visit_N(_, _, _)
thlist_visit_N(N, items, vs) ==
  LET r == visitor(items[N + 1], N, vs)
      items1 == [items EXCEPT ![N + 1] = r.elem]
  IN IF N # 0
       THEN thlist_visit_N(N - 1, items1, r.vs)
       ELSE [items |-> items1, vs |-> r.vs, out |-> Return(0)]

\* visit(visitor) = visit<sizeof...(ARGS) - 1>(visitor)
thlist_visit(items, vs) == thlist_visit_N(Len(items) - 1, items, vs)

\* mutation of ivisit<N>: the test i == N dropped
RECURSIVE thlist_ivisit_all(_, _, _, _)
thlist_ivisit_all(N, items, vs, i) ==
  LET r == visitor(items[N + 1], N, vs)
      s1 == [items |-> [items EXCEPT ![N + 1] = r.elem], vs |-> r.vs]
      s2 == IF N # 0 THEN thlist_ivisit_all(N - 1, s1.items, s1.vs, i) ELSE s1
  IN [items |-> s2.items, vs |-> s2.vs, out |-> Throw("out of range in ivisit")]

\* ivisit<N>(visitor, i): the throw after the recursion is unconditional
RECURSIVE thlist_ivisit(_, _, _, _)
thlist_ivisit(N, items, vs, i) ==
  LET r == visitor(items[N + 1], N, vs)
      s1 == IF i = N
              THEN [items |-> [items EXCEPT ![N + 1] = r.elem], vs |-> r.vs]
              ELSE [items |-> items, vs |-> vs]
      s2 == IF N # 0 THEN thlist_ivisit(N - 1, s1.items, s1.vs, i) ELSE s1
  IN [items |-> s2.items, vs |-> s2.vs, out |-> Throw("out of range in ivisit")]

\* visit(visitor, i) = ivisit<sizeof...(ARGS) - 1>(visitor, i)
thlist_visit_at(items, vs, i) == thlist_ivisit(Len(items) - 1, items, vs, i)

\* ------------------------------------------------------- calc3 (test.cc)
\* for (ni = 0; ni < groupsize; ++ni) if (_groupdefs(group, ni) == "baz") ++tctr;
RECURSIVE calc3_count(_, _, _, _, _)
calc3_count(groupdefs, group, ni, groupsize, tctr) ==
  IF ni < groupsize
    THEN LET g == tmap_get(groupdefs, group, ni)
         IN IF g.kind # "return"
              THEN g
              ELSE calc3_count(groupdefs, group, ni + 1, groupsize,
                               IF g.val = "baz" THEN tctr + 1 ELSE tctr)
    ELSE Return(tctr)

\* for (j = 0; j < _coefs.size(); ++j) { sum += tctr * _coefs[j]; _values[ctr++] = sum; }
RECURSIVE calc3_coefs(_, _, _, _)
calc3_coefs(coefs, j, tctr, st) ==
  IF j < tlist_size(coefs)
    THEN LET sum == st.sum + tctr * Val(tlist_index(coefs, j))
         IN calc3_coefs(coefs, j + 1, tctr,
              [sum |-> sum, ctr |-> st.ctr + 1,
               values |-> [st.values EXCEPT ![st.ctr + 1] = sum]])
    ELSE st

\* for (i = 0; i < _groups.size(); ++i) { ... }; a throw ends the loop
RECURSIVE calc3_groups(_, _, _, _, _)
calc3_groups(groups, groupdefs, coefs, i, st) ==
  IF i < tstrlist_size(groups)
    THEN LET group == tstrlist_index(groups, i)
             groupsize == tmap_size_key(groupdefs, group.val)
             tctr == calc3_count(groupdefs, group.val, 0, groupsize.val, 0)
         IN IF group.kind # "return" THEN group
            ELSE IF groupsize.kind # "return" THEN groupsize
            ELSE IF tctr.kind # "return" THEN tctr
            ELSE calc3_groups(groups, groupdefs, coefs, i + 1,
                              calc3_coefs(coefs, 0, tctr.val, st))
    ELSE Return(st)

calc3_update(groups, groupdefs, coefs) ==
  LET n == tstrlist_size(groups) * tlist_size(coefs)
      r == calc3_groups(groups, groupdefs, coefs, 0,
                        [sum |-> 0, ctr |-> 0, values |-> Zeros(n)])
  IN IF r.kind # "return" THEN r ELSE Return(r.val.values[r.val.ctr])

\* main(): the value after line 93, and what main returns (the double
\* val + lval converted to int) or the exception that ends it
main ==
  LET val0 == calc_update(CalcCoefs)
      r2 == calc2_update(Calc2Coefs, Calc2Ids, Zeros(4))
      r3 == calc3_update(Calc3Groups, Calc3GroupDefs, Calc3Coefs)
      slist == <<Elem("calc"), Elem("calc2")>>
      v == thlist_visit(slist, [lval |-> 0, calls |-> <<>>])
  IN IF r3.kind # "return"
       THEN r3
       ELSE Return([calc |-> val0,
                    ret |-> (val0 + r2.ret + r3.val + v.vs.lval) \div Scale])

\* -------------------------------------------------------- state machine
\* One program is run: a caller that declares one container and then calls
\* its operations in any order, or main() of test.cc.
VARIABLES
  kind,   \* "tlist", "tstrlist", "thlist", "tmap" or "main"
  tl,     \* tlist::values
  sl,     \* the ARGS of the tstrlist
  hl,     \* thlist::items
  tm,     \* the KVPAIRS of the tmap
  vt,     \* the VALUE parameter of the tmap
  res     \* the last call: operation, arguments, outcome, visitor state

vars == <<kind, tl, sl, hl, tm, vt, res>>

Idx == 0..MaxLen          \* size_t arguments tried

Call(op, key, i, out, vs) ==
  [op |-> op, key |-> key, i |-> i, out |-> out,
   calls |-> vs.calls, lval |-> vs.lval]

NoVisitor == [lval |-> 0, calls |-> <<>>]

KVPairs == [first : Keys, second : ValLists]
ValueTypes == {NoMember, [first |-> "beef", second |-> <<"bat">>]}

Init ==
  /\ res = Call("none", "", 0, Return(0), NoVisitor)
  /\ \/ /\ kind = "tlist"
        /\ tl \in SeqsUpTo(TVals, MaxLen)
        /\ sl = <<>> /\ hl = <<>> /\ tm = <<>> /\ vt = NoMember
     \/ /\ kind = "tstrlist"
        /\ sl \in SeqsUpTo(Strs, MaxLen)
        /\ tl = <<>> /\ hl = <<>> /\ tm = <<>> /\ vt = NoMember
     \/ /\ kind = "thlist"
        /\ hl \in {[k \in DOMAIN ts |-> Elem(ts[k])] : ts \in SeqsUpTo(ElemTypes, MaxLen)}
        /\ tl = <<>> /\ sl = <<>> /\ tm = <<>> /\ vt = NoMember
     \/ /\ kind = "tmap"
        /\ tm \in SeqsUpTo(KVPairs, MaxPairs)
        /\ vt \in ValueTypes
        /\ tl = <<>> /\ sl = <<>> /\ hl = <<>>
     \/ /\ kind = "main"
        /\ tl = <<>> /\ sl = <<>> /\ hl = <<>> /\ tm = <<>> /\ vt = NoMember

\* tlist::size()
TlistSize ==
  /\ kind = "tlist"
  /\ res' = Call("size", "", 0, Return(tlist_size(tl)), NoVisitor)
  /\ UNCHANGED <<kind, tl, sl, hl, tm, vt>>

\* tlist::operator[](i_) const
TlistIndex ==
  /\ kind = "tlist"
  /\ \E i \in Idx : \E out \in tlist_index(tl, i) :
       res' = Call("index", "", i, out, NoVisitor)
  /\ UNCHANGED <<kind, tl, sl, hl, tm, vt>>

\* tstrlist::size()
TstrlistSize ==
  /\ kind = "tstrlist"
  /\ res' = Call("size", "", 0, Return(tstrlist_size(sl)), NoVisitor)
  /\ UNCHANGED <<kind, tl, sl, hl, tm, vt>>

\* tstrlist::operator[](i) const
TstrlistIndex ==
  /\ kind = "tstrlist"
  /\ \E i \in Idx : res' = Call("index", "", i, tstrlist_index(sl, i), NoVisitor)
  /\ UNCHANGED <<kind, tl, sl, hl, tm, vt>>

\* thlist::size()
ThlistSize ==
  /\ kind = "thlist"
  /\ res' = Call("size", "", 0, Return(thlist_size(hl)), NoVisitor)
  /\ UNCHANGED <<kind, tl, sl, hl, tm, vt>>

\* double lval = 0.0; slist.visit(visitor): not const, the visitor gets
\* std::get<N>(items) by reference
ThlistVisit ==
  /\ kind = "thlist"
  /\ LET r == thlist_visit(hl, NoVisitor)
     IN /\ hl' = r.items
        /\ res' = Call("visit", "", 0, r.out, r.vs)
  /\ UNCHANGED <<kind, tl, sl, tm, vt>>

\* double lval = 0.0; slist.visit(visitor, i)
ThlistVisitAt ==
  /\ kind = "thlist"
  /\ \E i \in Idx :
       LET r == thlist_visit_at(hl, NoVisitor, i)
       IN /\ hl' = r.items
          /\ res' = Call("visit_at", "", i, r.out, r.vs)
  /\ UNCHANGED <<kind, tl, sl, tm, vt>>

\* tmap::size()
TmapSize ==
  /\ kind = "tmap"
  /\ res' = Call("size", "", 0, Return(tmap_size(tm)), NoVisitor)
  /\ UNCHANGED <<kind, tl, sl, hl, tm, vt>>

\* tmap::size(key_)
TmapSizeKey ==
  /\ kind = "tmap"
  /\ \E key \in QueryKeys :
       res' = Call("size_key", key, 0, tmap_size_key(tm, key), NoVisitor)
  /\ UNCHANGED <<kind, tl, sl, hl, tm, vt>>

\* tmap::operator[](key_) const
TmapIndex ==
  /\ kind = "tmap"
  /\ \E key \in QueryKeys :
       res' = Call("get", key, 0, tmap_index(vt, tm, key), NoVisitor)
  /\ UNCHANGED <<kind, tl, sl, hl, tm, vt>>

\* tmap::operator()(key_, i_) const
TmapGet ==
  /\ kind = "tmap"
  /\ \E key \in QueryKeys : \E i \in Idx :
       res' = Call("get_at", key, i, tmap_get(tm, key, i), NoVisitor)
  /\ UNCHANGED <<kind, tl, sl, hl, tm, vt>>

\* main() of test.cc, run to its return
Main ==
  /\ kind = "main"
  /\ res' = Call("main", "", 0, main, NoVisitor)
  /\ UNCHANGED <<kind, tl, sl, hl, tm, vt>>

Next ==
  \/ TlistSize
  \/ TlistIndex
  \/ TstrlistSize
  \/ TstrlistIndex
  \/ ThlistSize
  \/ ThlistVisit
  \/ ThlistVisitAt
  \/ TmapSize
  \/ TmapSizeKey
  \/ TmapIndex
  \/ TmapGet
  \/ Main

Spec == Init /\ [][Next]_vars

\* --------------------------------------------------------------- claims
\* what the specification means by "the first binding whose key equals key",
\* stated on the declared KVPAIRS without reference to the helpers
HasKey(kvpairs, key) == \E j \in 1..Len(kvpairs) : kvpairs[j].first = key

FirstMatch(kvpairs, key) ==
  CHOOSE j \in 1..Len(kvpairs) :
    /\ kvpairs[j].first = key
    /\ \A m \in 1..(j - 1) : kvpairs[m].first # key

\* C1: get(key, i) with key present and i < size(key) returns the element
\* declared at position i of the sequence of the first binding with that key
C1_GetAtDeclaredElement ==
  (/\ kind = "tmap" /\ res.op = "get_at"
   /\ HasKey(tm, res.key)
   /\ res.i < Len(tm[FirstMatch(tm, res.key)].second))
  => res.out = Return(tm[FirstMatch(tm, res.key)].second[res.i + 1])

\* C2: for a tlist and for a tstrlist built from v0 .. v(N-1), operator[](i)
\* returns vi for every i < N, and size() returns N
C2_ConstructionRoundTrip ==
  /\ (kind = "tlist" /\ res.op = "index" /\ res.i < Len(tl))
       => res.out = Return(tl[res.i + 1])
  /\ (kind = "tstrlist" /\ res.op = "index" /\ res.i < Len(sl))
       => res.out = Return(sl[res.i + 1])
  /\ (kind = "tlist" /\ res.op = "size") => res.out = Return(Len(tl))
  /\ (kind = "tstrlist" /\ res.op = "size") => res.out = Return(Len(sl))

\* C3: get(key), wherever the call compiles, returns the value of the first
\* declared binding with that key (so every binding not shadowed by an
\* earlier duplicate, the last one included, is reachable) and fails with
\* KeyError when no binding has the key
C3_GetFirstMatch ==
  (kind = "tmap" /\ res.op = "get" /\ res.out.kind # "ill-formed")
  => IF HasKey(tm, res.key)
       THEN res.out = Return(tm[FirstMatch(tm, res.key)].second)
       ELSE IsKeyError(res.out)

\* C4: visit(visitor, i) raises an error iff i is outside [0, N): for i < N
\* it invokes the visitor once, on element i, and returns; for i >= N it
\* invokes it zero times and fails with IndexError
C4_VisitAtErrorIffOutOfRange ==
  (kind = "thlist" /\ res.op = "visit_at")
  => IF res.i < Len(hl)
       THEN /\ res.out.kind = "return"
            /\ res.calls = <<[pos |-> res.i, type |-> hl[res.i + 1].type]>>
       ELSE /\ IsIndexError(res.out)
            /\ res.calls = <<>>

\* C5: visit(visitor) invokes the visitor exactly N times, once per element,
\* in descending index order N-1, ..., 0, and then returns normally
C5_VisitAllDescending ==
  (kind = "thlist" /\ res.op = "visit")
  => /\ res.out.kind = "return"
     /\ Len(res.calls) = Len(hl)
     /\ \A k \in 1..Len(hl) :
          res.calls[k] = [pos |-> Len(hl) - k, type |-> hl[Len(hl) - k + 1].type]

\* a three-element thlist [calc, calc, calc2] visited: calc2 first
C5_Witness ==
  /\ kind = "thlist" /\ res.op = "visit"
  /\ Len(hl) = 3
  /\ [k \in 1..3 |-> hl[k].type] = <<"calc", "calc", "calc2">>
  /\ [k \in 1..3 |-> res.calls[k].type] = <<"calc2", "calc", "calc">>

\* C6: for a tlist and for a tstrlist of length N, operator[](i) with i >= N
\* fails with IndexError
C6_IndexOutOfRangeFails ==
  /\ (kind = "tlist" /\ res.op = "index" /\ res.i >= Len(tl))
       => IsIndexError(res.out)
  /\ (kind = "tstrlist" /\ res.op = "index" /\ res.i >= Len(sl))
       => IsIndexError(res.out)

\* C7: get(key, i) fails with KeyError when no binding has key, with
\* IndexError when key is present and i >= the length of the sequence of the
\* first binding with that key, and returns an element otherwise
C7_GetAtErrors ==
  (kind = "tmap" /\ res.op = "get_at")
  => IF ~HasKey(tm, res.key)
       THEN IsKeyError(res.out)
       ELSE IF res.i >= Len(tm[FirstMatch(tm, res.key)].second)
         THEN IsIndexError(res.out)
         ELSE res.out.kind = "return"

\* key present, index one past the end of its sequence: IndexError
C7_Witness ==
  /\ kind = "tmap" /\ res.op = "get_at"
  /\ tm = Calc3GroupDefs /\ res.key = "beef" /\ res.i = 2
  /\ IsIndexError(res.out)

\* C8: size(key) returns the length of the sequence of the first binding
\* with that key and fails with KeyError when there is none; get(key, i)
\* succeeds for every i in [0, size(key))
C8_SizeKey ==
  kind = "tmap"
  => /\ res.op = "size_key"
          => IF HasKey(tm, res.key)
               THEN res.out = Return(Len(tm[FirstMatch(tm, res.key)].second))
               ELSE IsKeyError(res.out)
     /\ (/\ res.op = "get_at"
         /\ tmap_size_key(tm, res.key).kind = "return"
         /\ res.i < tmap_size_key(tm, res.key).val)
          => res.out.kind = "return"

\* size("chicken") == 2 on the map of test.cc
C8_Witness ==
  /\ kind = "tmap" /\ res.op = "size_key"
  /\ tm = Calc3GroupDefs /\ res.key = "chicken"
  /\ res.out = Return(2)

\* C9 as stated: no operation changes the length or the state of any stored
\* element of any container
C9_Immutable ==
  [][tl' = tl /\ sl' = sl /\ hl' = hl /\ tm' = tm /\ vt' = vt]_vars

\* C9 as amended: no operation changes a tlist, a tstrlist or a tmap, nor the
\* element count and element types of a thlist; only visit(visitor) and
\* visit(visitor, i) change thlist element state, and visit(visitor, i)
\* changes no element other than the one at position i
C9_Frame ==
  [][/\ tl' = tl /\ sl' = sl /\ tm' = tm /\ vt' = vt
     /\ Len(hl') = Len(hl)
     /\ \A k \in 1..Len(hl) : hl'[k].type = hl[k].type
     /\ res'.op \notin {"visit", "visit_at"} => hl' = hl
     /\ res'.op = "visit_at"
          => \A k \in 1..Len(hl) : k # res'.i + 1 => hl'[k] = hl[k]]_vars

\* visit(visitor, 0) on [calc2, calc2]: element 0 written, element 1 as built
C9_Witness ==
  /\ kind = "thlist" /\ res.op = "visit_at" /\ res.i = 0
  /\ Len(hl) = 2
  /\ hl[1].type = "calc2" /\ hl[1].values # Zeros(4)
  /\ hl[2] = Elem("calc2")

\* C10: calc over [0.9999, 0.998, 0.9333, 0.5] yields 3.4312 and main()
\* completes without a lookup error and returns 12
C10_MainReturns12 ==
  res.op = "main"
  => /\ res.out.kind = "return"
     /\ res.out.val.calc = 34312      \* 3.4312 in units of 1/Scale
     /\ res.out.val.ret = 12

C10_Witness ==
  /\ kind = "main" /\ res.op = "main"
  /\ res.out.kind = "return"

====
